---- MODULE Spec2Model ----
(***************************************************************************)
(* Homomorphic voting system: the express server of backend/server.js      *)
(* (sessions, encrypted ballots, homomorphic fold), the SecureVotingClient *)
(* of frontend/src/App.js, and the Paillier operations both call.          *)
(*                                                                         *)
(* Numbers cross every boundary as decimal strings, so a string is a       *)
(* sequence of one-character strings and BigInt(..) / toString() are       *)
(* modelled as the parse and the print they are.                           *)
(***************************************************************************)
EXTENDS Integers, Sequences, FiniteSets, TLC

(***************************************************************************)
(* Bounds of the model (not program constants).                            *)
(***************************************************************************)
\* ballots stored over all sessions
MaxVotes == 2
\* init requests served
MaxInits == 2

(***************************************************************************)
(* JavaScript BigInt arithmetic: / and % truncate toward zero.             *)
(***************************************************************************)
Abs(a) == IF a < 0 THEN -a ELSE a

JsRem(a, b) == IF a < 0 THEN -((-a) % Abs(b)) ELSE a % Abs(b)

JsDiv(a, b) ==
  LET q == Abs(a) \div Abs(b)
  IN  IF (a < 0) = (b < 0) THEN q ELSE -q

(***************************************************************************)
(* Decimal strings.                                                        *)
(***************************************************************************)
DigitChars == <<"0", "1", "2", "3", "4", "5", "6", "7", "8", "9">>

IsDigit(ch) == \E d \in 1..10 : DigitChars[d] = ch

DigitValue(ch) == (CHOOSE d \in 1..10 : DigitChars[d] = ch) - 1

RECURSIVE NatToString(_)
NatToString(k) ==
  IF k < 10 THEN <<DigitChars[k + 1]>>
  ELSE NatToString(k \div 10) \o <<DigitChars[(k % 10) + 1]>>

\* BigInt.prototype.toString()
BigIntToString(v) == IF v < 0 THEN <<"-">> \o NatToString(-v) ELSE NatToString(v)

RECURSIVE DigitsValue(_)
DigitsValue(s) ==
  IF s = <<>> THEN 0
  ELSE 10 * DigitsValue(SubSeq(s, 1, Len(s) - 1)) + DigitValue(s[Len(s)])

AllDigits(s) == \A i \in 1..Len(s) : IsDigit(s[i])

\* BigInt(string): the empty string is 0n, an optional sign before decimal
\* digits, anything else a SyntaxError.
StringToBigInt(s) ==
  IF s = <<>> THEN [ok |-> TRUE, val |-> 0]
  ELSE IF AllDigits(s) THEN [ok |-> TRUE, val |-> DigitsValue(s)]
  ELSE IF s[1] \in {"-", "+"} /\ Len(s) > 1 /\ AllDigits(Tail(s))
       THEN [ok |-> TRUE,
             val |-> IF s[1] = "-" THEN -DigitsValue(Tail(s)) ELSE DigitsValue(Tail(s))]
  ELSE [ok |-> FALSE, val |-> 0]

(***************************************************************************)
(* JSON values of a request body or an argument: a string, or undefined.   *)
(***************************************************************************)
JString(s) == [t |-> "string", s |-> s, v |-> 0]

JNumber(v) == [t |-> "number", s |-> <<>>, v |-> v]

JUndefined == [t |-> "undefined", s |-> <<>>, v |-> 0]

JNull == [t |-> "null", s |-> <<>>, v |-> 0]

\* String.prototype.substring(0, 50) + '...'
Preview(s) == SubSeq(s, 1, IF Len(s) < 50 THEN Len(s) ELSE 50) \o <<".", ".", ".">>

(***************************************************************************)
(* Arithmetic primitives of the Paillier library.                          *)
(***************************************************************************)
RECURSIVE Gcd(_, _)
Gcd(a, b) == IF b = 0 THEN Abs(a) ELSE Gcd(b, a % Abs(b))

Lcm(a, b) == (a * b) \div Gcd(a, b)

\* square-and-multiply; the base is first brought into [0, n)
RECURSIVE ModPowLoop(_, _, _, _)
ModPowLoop(r, b, e, n) ==
  IF e = 0 THEN r
  ELSE ModPowLoop(IF e % 2 = 1 THEN (r * b) % n ELSE r, (b * b) % n, e \div 2, n)

ModPow(b, e, n) == IF n = 1 THEN 0 ELSE ModPowLoop(1, b % n, e, n)

\* extended Euclid: a*x + b*y = g
RECURSIVE Egcd(_, _)
Egcd(a, b) ==
  IF b = 0 THEN [g |-> a, x |-> 1, y |-> 0]
  ELSE LET r == Egcd(b, a % b)
       IN  [g |-> r.g, x |-> r.y, y |-> r.x - (a \div b) * r.y]

ModInverse(a, n) ==
  LET e == Egcd(a % n, n)
  IN  IF e.g = 1 THEN [ok |-> TRUE, val |-> e.x % n] ELSE [ok |-> FALSE, val |-> 0]

\* L(x) = (x - 1) / n, BigInt division
LFunction(x, n) == JsDiv(x - 1, n)

(***************************************************************************)
(* Key manager.                                                            *)
(***************************************************************************)
\* the pairs of primes key generation may draw
KeyPrimes == {<<3, 5>>, <<5, 7>>}

GenerateKeyPair(p, q) ==
  LET n == p * q
      g == n + 1
      lambda == Lcm(p - 1, q - 1)
      mu == ModInverse(LFunction(ModPow(g, lambda, n * n), n), n).val
  IN  [n |-> n, g |-> g, lambda |-> lambda, mu |-> mu]

KeyPairs == {GenerateKeyPair(pq[1], pq[2]) : pq \in KeyPrimes}

(***************************************************************************)
(* Cipher.                                                                 *)
(***************************************************************************)
\* the random values encrypt may draw for modulus n: 0 < r < n, gcd(r, n) = 1
AdmissibleRs(n) == {r \in 1..(n - 1) : Gcd(r, n) = 1}

\* the values of r the protocol model draws
RandomPool == {1, 2}

RandomRs(n) == AdmissibleRs(n) \cap RandomPool

\* PublicKey.encrypt(m, r)
Encrypt(m, r, n, g) == (ModPow(g, m, n * n) * ModPow(r, n, n * n)) % (n * n)

\* PublicKey.addition(a, b): reduce((sum, next) => sum * next % n2, 1n)
Addition(a, b, n) == JsRem(JsRem(1 * a, n * n) * b, n * n)

\* PrivateKey.decrypt(c)
Decrypt(c, lambda, mu, n) == (LFunction(ModPow(c, lambda, n * n), n) * mu) % n

(***************************************************************************)
(* State.                                                                  *)
(***************************************************************************)
VARIABLES
  votingSessions,   \* server: sessionId -> {publicKey, createdAt, voteCount}
  encryptedVotes,   \* server: sessionId -> sequence of {encryptedValue, timestamp}
  client,           \* each SecureVotingClient's fields
  lastResponse,     \* the response to the request of the last step, if it sent one
  lastReturn,       \* what the client method of the last step returned or threw
  lastTally,        \* sessionId -> the last successful compute response for it
  initCount,        \* init requests served so far
  calc,             \* the run of a single computation (CipherSpec, FoldSpec)
  app               \* the state of the HomomorphicVotingApp component

vars == <<votingSessions, encryptedVotes, client, lastResponse, lastReturn, lastTally,
          initCount, calc, app>>

\* the identifiers generateSessionId may return
SessionIds == {"s1", "s2"}

Clients == {"c1"}

Null == [null |-> TRUE]

\* new Date(): the model does not tell times apart
DateNow == "date"

NoFunction == [k \in {} |-> Null]

(***************************************************************************)
(* Server handlers: each gives the stores after the request and the        *)
(* response sent.                                                          *)
(***************************************************************************)
Response(op, sessionId, status, body) ==
  [op |-> op, sessionId |-> sessionId, status |-> status, body |-> body]

ErrorBody(message) == [success |-> FALSE, error |-> message]

\* the answer of express to an exception no handler caught: a 500 page
UncaughtBody(message) == [html |-> message]

\* properties every object inherits from Object.prototype
PrototypeKeys == {"constructor"}

\* obj[key] is truthy: a stored record, or an inherited property
HasProperty(obj, key) == key \in DOMAIN obj \/ key \in PrototypeKeys

Handled(vs, ev, res) == [vs |-> vs, ev |-> ev, res |-> res]

PublicKeyJson(kp) == [n |-> BigIntToString(kp.n), g |-> BigIntToString(kp.g)]

PrivateKeyJson(kp) == [lambda |-> BigIntToString(kp.lambda), mu |-> BigIntToString(kp.mu)]

\* init storing the whole key pair
SessionRecord_KeepsPrivateKey(kp, now) ==
  [publicKey |-> PublicKeyJson(kp), privateKey |-> PrivateKeyJson(kp),
   createdAt |-> now, voteCount |-> 0]

\* the record init stores for a new session
SessionRecord(kp, now) ==
  [publicKey |-> PublicKeyJson(kp), createdAt |-> now, voteCount |-> 0]

\* the body of init's response
InitBody(kp, sessionId) ==
  [success |-> TRUE,
   sessionId |-> sessionId,
   publicKey |-> PublicKeyJson(kp),
   privateKey |-> PrivateKeyJson(kp),
   message |-> "Keep your private key secure! Server only knows public key."]

\* POST /api/voting/init, with the key pair generateRandomKeys resolved to
\* and the identifier generateSessionId returned
InitHandler(vs, ev, now, kp, sessionId) ==
  Handled((sessionId :> SessionRecord(kp, now)) @@ vs,
          (sessionId :> <<>>) @@ ev,
          Response("init", sessionId, 200, InitBody(kp, sessionId)))

\* submit that stores the ballot and leaves voteCount as it was
SubmitHandler_NoCount(vs, ev, now, sessionId, encryptedVote) ==
  IF ~HasProperty(vs, sessionId)
  THEN Handled(vs, ev, Response("submit", sessionId, 404, ErrorBody("Session not found")))
  ELSE IF sessionId \notin DOMAIN vs
  THEN Handled(vs, ev, Response("submit", sessionId, 500, ErrorBody("TypeError")))
  ELSE IF encryptedVote.t # "string"
  THEN Handled(vs, ev, Response("submit", sessionId, 500, ErrorBody("TypeError")))
  ELSE LET ev2 == [ev EXCEPT ![sessionId] =
                     Append(@, [encryptedValue |-> encryptedVote.s, timestamp |-> now])]
       IN  Handled(vs, ev2,
                   Response("submit", sessionId, 200,
                            [success |-> TRUE,
                             message |-> "Encrypted vote received and stored",
                             voteCount |-> vs[sessionId].voteCount,
                             note |-> "Server cannot read your vote - it is encrypted!"]))

\* submit that replaces the stored list by the new ballot alone
SubmitHandler_Overwrites(vs, ev, now, sessionId, encryptedVote) ==
  IF ~HasProperty(vs, sessionId)
  THEN Handled(vs, ev, Response("submit", sessionId, 404, ErrorBody("Session not found")))
  ELSE IF sessionId \notin DOMAIN vs
  THEN Handled(vs, ev, Response("submit", sessionId, 500, ErrorBody("TypeError")))
  ELSE IF encryptedVote.t # "string"
  THEN Handled(vs, ev, Response("submit", sessionId, 500, ErrorBody("TypeError")))
  ELSE LET ev2 == [ev EXCEPT ![sessionId] =
                     <<[encryptedValue |-> encryptedVote.s, timestamp |-> now]>>]
           vs2 == [vs EXCEPT ![sessionId].voteCount = @ + 1]
       IN  Handled(vs2, ev2,
                   Response("submit", sessionId, 200,
                            [success |-> TRUE,
                             message |-> "Encrypted vote received and stored",
                             voteCount |-> vs2[sessionId].voteCount,
                             note |-> "Server cannot read your vote - it is encrypted!"]))

\* submit that counts the ballot in every session
SubmitHandler_SharedCount(vs, ev, now, sessionId, encryptedVote) ==
  IF ~HasProperty(vs, sessionId)
  THEN Handled(vs, ev, Response("submit", sessionId, 404, ErrorBody("Session not found")))
  ELSE IF sessionId \notin DOMAIN vs
  THEN Handled(vs, ev, Response("submit", sessionId, 500, ErrorBody("TypeError")))
  ELSE IF encryptedVote.t # "string"
  THEN Handled(vs, ev, Response("submit", sessionId, 500, ErrorBody("TypeError")))
  ELSE LET ev2 == [ev EXCEPT ![sessionId] =
                     Append(@, [encryptedValue |-> encryptedVote.s, timestamp |-> now])]
           vs2 == [t \in DOMAIN vs |-> [vs[t] EXCEPT !.voteCount = @ + 1]]
       IN  Handled(vs2, ev2,
                   Response("submit", sessionId, 200,
                            [success |-> TRUE,
                             message |-> "Encrypted vote received and stored",
                             voteCount |-> vs2[sessionId].voteCount,
                             note |-> "Server cannot read your vote - it is encrypted!"]))

\* POST /api/voting/submit
\* submit that answers success but stores a value the session already holds
\* only once
SubmitHandler_SkipsDuplicate(vs, ev, now, sessionId, encryptedVote) ==
  IF ~HasProperty(vs, sessionId)
  THEN Handled(vs, ev, Response("submit", sessionId, 404, ErrorBody("Session not found")))
  ELSE IF sessionId \notin DOMAIN vs
  THEN Handled(vs, ev, Response("submit", sessionId, 500, ErrorBody("TypeError")))
  ELSE IF encryptedVote.t # "string"
  THEN Handled(vs, ev, Response("submit", sessionId, 500, ErrorBody("TypeError")))
  ELSE LET stored == \E i \in 1..Len(ev[sessionId]) :
                       ev[sessionId][i].encryptedValue = encryptedVote.s
           ev2 == IF stored THEN ev
                  ELSE [ev EXCEPT ![sessionId] =
                          Append(@, [encryptedValue |-> encryptedVote.s, timestamp |-> now])]
           vs2 == IF stored THEN vs ELSE [vs EXCEPT ![sessionId].voteCount = @ + 1]
       IN  Handled(vs2, ev2,
                   Response("submit", sessionId, 200,
                            [success |-> TRUE,
                             message |-> "Encrypted vote received and stored",
                             voteCount |-> vs2[sessionId].voteCount,
                             note |-> "Server cannot read your vote - it is encrypted!"]))

SubmitHandler(vs, ev, now, sessionId, encryptedVote) ==
  IF ~HasProperty(vs, sessionId)
  THEN Handled(vs, ev, Response("submit", sessionId, 404, ErrorBody("Session not found")))
  ELSE IF sessionId \notin DOMAIN vs
  THEN Handled(vs, ev, Response("submit", sessionId, 500, ErrorBody("TypeError")))
  ELSE IF encryptedVote.t # "string"
  THEN \* encryptedVote.substring throws, the catch answers 500
       Handled(vs, ev, Response("submit", sessionId, 500, ErrorBody("TypeError")))
  ELSE LET ev2 == [ev EXCEPT ![sessionId] =
                     Append(@, [encryptedValue |-> encryptedVote.s, timestamp |-> now])]
           vs2 == [vs EXCEPT ![sessionId].voteCount = @ + 1]
       IN  Handled(vs2, ev2,
                   Response("submit", sessionId, 200,
                            [success |-> TRUE,
                             message |-> "Encrypted vote received and stored",
                             voteCount |-> vs2[sessionId].voteCount,
                             note |-> "Server cannot read your vote - it is encrypted!"]))

\* the loop ending one ballot early
RECURSIVE ComputeLoop_StopsEarly(_, _, _, _)
ComputeLoop_StopsEarly(encryptedSum, votes, i, n) ==
  IF i >= Len(votes) THEN [ok |-> TRUE, val |-> encryptedSum]
  ELSE LET next == StringToBigInt(votes[i].encryptedValue)
       IN  IF ~next.ok THEN [ok |-> FALSE, val |-> 0]
           ELSE ComputeLoop_StopsEarly(Addition(encryptedSum, next.val, n), votes, i + 1, n)

\* the loop of compute from index i on: encryptedSum = addition(encryptedSum, BigInt(votes[i]))
RECURSIVE ComputeLoop(_, _, _, _)
ComputeLoop(encryptedSum, votes, i, n) ==
  IF i > Len(votes) THEN [ok |-> TRUE, val |-> encryptedSum]
  ELSE LET next == StringToBigInt(votes[i].encryptedValue)
       IN  IF ~next.ok THEN [ok |-> FALSE, val |-> 0]
           ELSE ComputeLoop(Addition(encryptedSum, next.val, n), votes, i + 1, n)

\* the loop starting at the first ballot again, which the sum already holds
ComputeSum_CountsFirstTwice(votes, publicKey) ==
  LET n == StringToBigInt(publicKey.n)
      first == StringToBigInt(votes[1].encryptedValue)
  IN  IF ~(n.ok /\ first.ok) THEN [ok |-> FALSE, val |-> 0]
      ELSE ComputeLoop(first.val, votes, 1, n.val)

\* the homomorphic sum compute builds from a non-empty vote list
ComputeSum(votes, publicKey) ==
  LET n == StringToBigInt(publicKey.n)
      g == StringToBigInt(publicKey.g)
      first == StringToBigInt(votes[1].encryptedValue)
  IN  IF ~(n.ok /\ g.ok /\ first.ok) THEN [ok |-> FALSE, val |-> 0]
      ELSE ComputeLoop(first.val, votes, 2, n.val)

\* compute without the check for an empty vote list: the product of no ballots
ComputeHandler_NoEmptyCheck(vs, ev, sessionId) ==
  IF ~HasProperty(vs, sessionId)
  THEN Handled(vs, ev, Response("compute", sessionId, 404, ErrorBody("Session not found")))
  ELSE IF sessionId \notin DOMAIN vs
  THEN Handled(vs, ev, Response("compute", sessionId, 500, ErrorBody("TypeError")))
  ELSE LET sum == IF Len(ev[sessionId]) = 0 THEN [ok |-> TRUE, val |-> 1]
                  ELSE ComputeSum(ev[sessionId], vs[sessionId].publicKey)
       IN  IF ~sum.ok
           THEN Handled(vs, ev, Response("compute", sessionId, 500, ErrorBody("SyntaxError")))
           ELSE Handled(vs, ev,
                        Response("compute", sessionId, 200,
                                 [success |-> TRUE,
                                  encryptedResult |-> BigIntToString(sum.val),
                                  voteCount |-> Len(ev[sessionId]),
                                  message |-> "Results computed on encrypted data. Only you can decrypt with your private key.",
                                  note |-> "Server performed addition on encrypted votes without ever seeing the actual votes!"]))

\* compute that empties the stored list once it has folded it
ComputeHandler_Drains(vs, ev, sessionId) ==
  IF ~HasProperty(vs, sessionId)
  THEN Handled(vs, ev, Response("compute", sessionId, 404, ErrorBody("Session not found")))
  ELSE IF sessionId \notin DOMAIN vs
  THEN Handled(vs, ev, Response("compute", sessionId, 500, ErrorBody("TypeError")))
  ELSE IF Len(ev[sessionId]) = 0
  THEN Handled(vs, ev, Response("compute", sessionId, 400, ErrorBody("No votes to compute")))
  ELSE LET sum == ComputeSum(ev[sessionId], vs[sessionId].publicKey)
       IN  IF ~sum.ok
           THEN Handled(vs, ev, Response("compute", sessionId, 500, ErrorBody("SyntaxError")))
           ELSE Handled(vs, [ev EXCEPT ![sessionId] = <<>>],
                        Response("compute", sessionId, 200,
                                 [success |-> TRUE,
                                  encryptedResult |-> BigIntToString(sum.val),
                                  voteCount |-> Len(ev[sessionId]),
                                  message |-> "Results computed on encrypted data. Only you can decrypt with your private key.",
                                  note |-> "Server performed addition on encrypted votes without ever seeing the actual votes!"]))

\* compute that reports the number of additions it made as voteCount
ComputeHandler_CountsAdditions(vs, ev, sessionId) ==
  IF ~HasProperty(vs, sessionId)
  THEN Handled(vs, ev, Response("compute", sessionId, 404, ErrorBody("Session not found")))
  ELSE IF sessionId \notin DOMAIN vs
  THEN Handled(vs, ev, Response("compute", sessionId, 500, ErrorBody("TypeError")))
  ELSE IF Len(ev[sessionId]) = 0
  THEN Handled(vs, ev, Response("compute", sessionId, 400, ErrorBody("No votes to compute")))
  ELSE LET sum == ComputeSum(ev[sessionId], vs[sessionId].publicKey)
       IN  IF ~sum.ok
           THEN Handled(vs, ev, Response("compute", sessionId, 500, ErrorBody("SyntaxError")))
           ELSE Handled(vs, ev,
                        Response("compute", sessionId, 200,
                                 [success |-> TRUE,
                                  encryptedResult |-> BigIntToString(sum.val),
                                  voteCount |-> Len(ev[sessionId]) - 1,
                                  message |-> "Results computed on encrypted data. Only you can decrypt with your private key.",
                                  note |-> "Server performed addition on encrypted votes without ever seeing the actual votes!"]))

\* POST /api/voting/compute
ComputeHandler(vs, ev, sessionId) ==
  IF ~HasProperty(vs, sessionId)
  THEN Handled(vs, ev, Response("compute", sessionId, 404, ErrorBody("Session not found")))
  ELSE IF sessionId \notin DOMAIN vs
  THEN Handled(vs, ev, Response("compute", sessionId, 500, ErrorBody("TypeError")))
  ELSE IF Len(ev[sessionId]) = 0
  THEN Handled(vs, ev, Response("compute", sessionId, 400, ErrorBody("No votes to compute")))
  ELSE LET sum == ComputeSum(ev[sessionId], vs[sessionId].publicKey)
       IN  IF ~sum.ok
           THEN Handled(vs, ev, Response("compute", sessionId, 500, ErrorBody("SyntaxError")))
           ELSE Handled(vs, ev,
                        Response("compute", sessionId, 200,
                                 [success |-> TRUE,
                                  encryptedResult |-> BigIntToString(sum.val),
                                  voteCount |-> Len(ev[sessionId]),
                                  message |-> "Results computed on encrypted data. Only you can decrypt with your private key.",
                                  note |-> "Server performed addition on encrypted votes without ever seeing the actual votes!"]))

\* GET /api/voting/session/:sessionId
GetSessionHandler(vs, ev, sessionId) ==
  IF ~HasProperty(vs, sessionId)
  THEN Handled(vs, ev, Response("session", sessionId, 404, ErrorBody("Session not found")))
  ELSE IF sessionId \notin DOMAIN vs
  THEN Handled(vs, ev, Response("session", sessionId, 500, UncaughtBody("TypeError")))
  ELSE Handled(vs, ev,
               Response("session", sessionId, 200,
                        [success |-> TRUE,
                         session |-> [sessionId |-> sessionId,
                                      voteCount |-> vs[sessionId].voteCount,
                                      createdAt |-> vs[sessionId].createdAt,
                                      publicKey |-> vs[sessionId].publicKey],
                         votes |-> [i \in 1..Len(ev[sessionId]) |->
                                      [encrypted |-> Preview(ev[sessionId][i].encryptedValue),
                                       timestamp |-> ev[sessionId][i].timestamp]]]))

\* response.ok of fetch
ResponseOk(res) == res.status >= 200 /\ res.status <= 299

\* the compute responses remembered per session
RecordTally(tally, res) ==
  IF res.op = "compute" /\ res.status = 200
  THEN (res.sessionId :> [encryptedResult |-> res.body.encryptedResult,
                          voteCount |-> res.body.voteCount]) @@ tally
  ELSE IF res.op = "init"
  THEN [s \in (DOMAIN tally) \ {res.sessionId} |-> tally[s]]
  ELSE tally

\* the server's side of a step: the stores, the response, the tally log
Serve(h) ==
  /\ votingSessions' = h.vs
  /\ encryptedVotes' = h.ev
  /\ lastResponse' = h.res
  /\ lastTally' = RecordTally(lastTally, h.res)
  /\ UNCHANGED app

TotalVotes == LET Sum[S \in SUBSET SessionIds] ==
                    IF S = {} THEN 0
                    ELSE LET s == CHOOSE t \in S : TRUE
                         IN  (IF s \in DOMAIN encryptedVotes THEN Len(encryptedVotes[s]) ELSE 0)
                             + Sum[S \ {s}]
              IN  Sum[SessionIds]

(***************************************************************************)
(* SecureVotingClient.                                                     *)
(***************************************************************************)
NullId == "null"

\* the fields the constructor sets
NewClient ==
  [sessionId |-> NullId, publicKey |-> Null, privateKey |-> Null,
   paillierPublicKey |-> Null, paillierPrivateKey |-> Null]

Returned(c, method, arg, value) ==
  [client |-> c, method |-> method, ok |-> TRUE, error |-> "", arg |-> arg, value |-> value]

Threw(c, method, arg, message) ==
  [client |-> c, method |-> method, ok |-> FALSE, error |-> message, arg |-> arg, value |-> Null]

\* the public key built with n and g in each other's place
PaillierPublicKey_Swapped(publicKey) ==
  [n |-> StringToBigInt(publicKey.g).val, g |-> StringToBigInt(publicKey.n).val]

\* new paillier.PublicKey(BigInt(publicKey.n), BigInt(publicKey.g))
PaillierPublicKey(publicKey) ==
  [n |-> StringToBigInt(publicKey.n).val, g |-> StringToBigInt(publicKey.g).val]

\* the private key built with lambda and mu in each other's place
PaillierPrivateKey_Swapped(privateKey, paillierPublicKey) ==
  [lambda |-> StringToBigInt(privateKey.mu).val,
   mu |-> StringToBigInt(privateKey.lambda).val,
   publicKey |-> paillierPublicKey]

\* new paillier.PrivateKey(BigInt(privateKey.lambda), BigInt(privateKey.mu), publicKey)
PaillierPrivateKey(privateKey, paillierPublicKey) ==
  [lambda |-> StringToBigInt(privateKey.lambda).val,
   mu |-> StringToBigInt(privateKey.mu).val,
   publicKey |-> paillierPublicKey]

\* the fields initializeSession stores from init's response
ClientAfterInit(data) ==
  [sessionId |-> data.sessionId,
   publicKey |-> data.publicKey,
   privateKey |-> data.privateKey,
   paillierPublicKey |-> PaillierPublicKey(data.publicKey),
   paillierPrivateKey |-> PaillierPrivateKey(data.privateKey, PaillierPublicKey(data.publicKey))]

\* castVote encrypting with the same r every time
EncryptVote_SameR(vote, r, paillierPublicKey) ==
  BigIntToString(Encrypt(vote, 1, paillierPublicKey.n, paillierPublicKey.g))

\* castVote: this.paillierPublicKey.encrypt(BigInt(vote)).toString(), with
\* the r that encrypt draws
EncryptVote(vote, r, paillierPublicKey) ==
  BigIntToString(Encrypt(vote, r, paillierPublicKey.n, paillierPublicKey.g))

\* decryptResults: Number(this.paillierPrivateKey.decrypt(BigInt(encryptedResult)))
DecryptResultsValue(encryptedResult, paillierPrivateKey) ==
  IF encryptedResult.t = "undefined" THEN [ok |-> FALSE, val |-> 0, error |-> "TypeError"]
  ELSE LET c == IF encryptedResult.t = "number"
                THEN [ok |-> TRUE, val |-> encryptedResult.v]
                ELSE StringToBigInt(encryptedResult.s)
       IN  IF ~c.ok THEN [ok |-> FALSE, val |-> 0, error |-> "SyntaxError"]
           ELSE [ok |-> TRUE,
                 val |-> Decrypt(c.val, paillierPrivateKey.lambda, paillierPrivateKey.mu,
                                 paillierPrivateKey.publicKey.n),
                 error |-> ""]

\* no request was sent
NoResponse == Response("none", NullId, 0, Null)

\* no client method ran
NoReturn == Threw(NullId, "none", JUndefined, "")

(***************************************************************************)
(* HomomorphicVotingApp: the state the component keeps with useState.      *)
(***************************************************************************)
\* clientKeys = null
NoKeys == [set |-> FALSE, publicKey |-> "", privateKey |-> ""]

\* the key pairs generateKeys may return
GeneratedKeys ==
  {[set |-> TRUE, publicKey |-> "pub1", privateKey |-> "priv1"],
   [set |-> TRUE, publicKey |-> "pub2", privateKey |-> "priv2"]}

\* results = null
NoResults ==
  [set |-> FALSE, encrypted |-> "", needsDecryption |-> FALSE, decrypted |-> FALSE,
   yesVotes |-> 0, noVotes |-> 0]

\* no timer is pending
NoTimer == [kind |-> "none", vote |-> JNull, clientKeys |-> NoKeys, results |-> NoResults]

\* the state of the component when it mounts
NewApp ==
  [activeTab |-> "vote", vote |-> JNull, encryptedVote |-> <<>>, serverVotes |-> <<>>,
   results |-> NoResults, loading |-> FALSE, clientKeys |-> NoKeys, timer |-> NoTimer]

\* encryptVote: `HE_${voteValue}_${random}`, the random part drawn as "r"
SimulatedCiphertext(voteValue) ==
  <<"H", "E", "_">> \o BigIntToString(voteValue.v) \o <<"_", "r">>

\* values Math.floor(Math.random() * 40) + 40 may take: both ends and one between
YesVotesDraws == {40, 41, 79}

\* values Math.floor(Math.random() * 30) + 20 may take: both ends and one between
NoVotesDraws == {20, 21, 49}

(***************************************************************************)
(* Inputs.                                                                 *)
(***************************************************************************)
\* the votes a caller may pass to castVote
VoteInputs == {0, 1, 2}

\* request bodies that are no encryption of a vote: not a number, not below
\* n^2 of any key, no string at all
MalformedVotes == {JString(<<"x">>), JString(<<"1", "2", "2", "5">>), JUndefined}

\* ballots a voter encrypts under the session's published key
EncryptedBallots(sessionId) ==
  IF sessionId \notin DOMAIN votingSessions THEN {}
  ELSE LET pk == PaillierPublicKey(votingSessions[sessionId].publicKey)
       IN  {JString(EncryptVote(m, r, pk)) : m \in {0, 1}, r \in RandomRs(pk.n)}

\* what a caller may hand to decryptResults besides a compute result
OtherDecryptArgs == {JString(<<"1">>), JUndefined}

(***************************************************************************)
(* Actions.                                                                *)
(***************************************************************************)
Idle == [pc |-> "idle"]

Init ==
  /\ votingSessions = NoFunction
  /\ encryptedVotes = NoFunction
  /\ client = [c \in Clients |-> NewClient]
  /\ lastResponse = NoResponse
  /\ lastReturn = NoReturn
  /\ lastTally = NoFunction
  /\ initCount = 0
  /\ app = NewApp
  /\ calc = Idle

\* a submit stores at most one ballot; the model stops storing at MaxVotes
WithinBound(h) == h.ev = encryptedVotes \/ TotalVotes < MaxVotes

\* a step in which the server handles a request
ServerStep(h, ret) ==
  /\ Serve(h)
  /\ lastReturn' = ret
  /\ UNCHANGED calc

\* a step in which a client method ends before it sends a request
ClientOnly(ret) ==
  /\ lastReturn' = ret
  /\ lastResponse' = NoResponse
  /\ UNCHANGED <<votingSessions, encryptedVotes, client, lastTally, initCount, calc, app>>

\* POST /api/voting/init sent without the client class
RawInit ==
  \E kp \in KeyPairs, sessionId \in SessionIds :
    /\ initCount < MaxInits
    /\ initCount' = initCount + 1
    /\ ServerStep(InitHandler(votingSessions, encryptedVotes, DateNow, kp, sessionId), NoReturn)
    /\ UNCHANGED client

\* POST /api/voting/submit sent without the client class
RawSubmit ==
  \E sessionId \in SessionIds :
    \E encryptedVote \in MalformedVotes \cup EncryptedBallots(sessionId) :
      LET h == SubmitHandler(votingSessions, encryptedVotes, DateNow, sessionId, encryptedVote)
      IN  /\ WithinBound(h)
          /\ ServerStep(h, NoReturn)
          /\ UNCHANGED <<client, initCount>>

\* POST /api/voting/compute sent without the client class
RawCompute ==
  \E sessionId \in SessionIds :
    /\ ServerStep(ComputeHandler(votingSessions, encryptedVotes, sessionId), NoReturn)
    /\ UNCHANGED <<client, initCount>>

\* GET /api/voting/session/:sessionId sent without the client class
RawGetSession ==
  \E sessionId \in SessionIds :
    /\ ServerStep(GetSessionHandler(votingSessions, encryptedVotes, sessionId), NoReturn)
    /\ UNCHANGED <<client, initCount>>

\* what initializeSession returns or throws on the response
InitializeSessionReturn(c, res) ==
  IF ~ResponseOk(res)
  THEN Threw(c, "initializeSession", JUndefined, "Failed to initialize session")
  ELSE Returned(c, "initializeSession", JUndefined,
                [success |-> TRUE, sessionId |-> res.body.sessionId,
                 message |-> res.body.message])

\* SecureVotingClient.initializeSession
InitializeSession(c) ==
  \E kp \in KeyPairs, sessionId \in SessionIds :
    LET h == InitHandler(votingSessions, encryptedVotes, DateNow, kp, sessionId)
    IN  /\ initCount < MaxInits
        /\ initCount' = initCount + 1
        /\ ServerStep(h, InitializeSessionReturn(c, h.res))
        /\ client' = IF ResponseOk(h.res)
                     THEN [client EXCEPT ![c] = ClientAfterInit(h.res.body)]
                     ELSE client

\* what castVote returns or throws on the response
CastVoteReturn(c, vote, encryptedVoteString, res) ==
  IF ~ResponseOk(res)
  THEN Threw(c, "castVote", JNumber(vote), "Failed to submit vote")
  ELSE Returned(c, "castVote", JNumber(vote),
                [success |-> TRUE,
                 voteCount |-> res.body.voteCount,
                 encryptedVote |-> Preview(encryptedVoteString),
                 message |-> res.body.message])

\* castVote without the check of the vote
CastVote_NoVoteCheck(c) ==
  \E vote \in VoteInputs :
    IF client[c].sessionId = NullId \/ client[c].paillierPublicKey = Null
    THEN ClientOnly(Threw(c, "castVote", JNumber(vote),
                          "Session not initialized. Call initializeSession() first."))
    ELSE \E r \in RandomRs(client[c].paillierPublicKey.n) :
           LET encryptedVoteString == EncryptVote(vote, r, client[c].paillierPublicKey)
               h == SubmitHandler(votingSessions, encryptedVotes, DateNow,
                                  client[c].sessionId, JString(encryptedVoteString))
           IN  /\ WithinBound(h)
               /\ ServerStep(h, CastVoteReturn(c, vote, encryptedVoteString, h.res))
               /\ UNCHANGED <<client, initCount>>

\* SecureVotingClient.castVote
CastVote(c) ==
  \E vote \in VoteInputs :
    IF client[c].sessionId = NullId \/ client[c].paillierPublicKey = Null
    THEN ClientOnly(Threw(c, "castVote", JNumber(vote),
                          "Session not initialized. Call initializeSession() first."))
    ELSE IF vote # 0 /\ vote # 1
    THEN ClientOnly(Threw(c, "castVote", JNumber(vote), "Vote must be 0 (No) or 1 (Yes)"))
    ELSE \E r \in RandomRs(client[c].paillierPublicKey.n) :
           LET encryptedVoteString == EncryptVote(vote, r, client[c].paillierPublicKey)
               h == SubmitHandler(votingSessions, encryptedVotes, DateNow,
                                  client[c].sessionId, JString(encryptedVoteString))
           IN  /\ WithinBound(h)
               /\ ServerStep(h, CastVoteReturn(c, vote, encryptedVoteString, h.res))
               /\ UNCHANGED <<client, initCount>>

\* what computeResults returns or throws on the response
ComputeResultsReturn(c, res) ==
  IF ~ResponseOk(res)
  THEN Threw(c, "computeResults", JUndefined, "Failed to compute results")
  ELSE Returned(c, "computeResults", JUndefined,
                [success |-> TRUE,
                 encryptedResult |-> res.body.encryptedResult,
                 voteCount |-> res.body.voteCount,
                 message |-> res.body.message])

\* SecureVotingClient.computeResults
ComputeResults(c) ==
  IF client[c].sessionId = NullId
  THEN ClientOnly(Threw(c, "computeResults", JUndefined, "Session not initialized"))
  ELSE LET h == ComputeHandler(votingSessions, encryptedVotes, client[c].sessionId)
       IN  /\ ServerStep(h, ComputeResultsReturn(c, h.res))
           /\ UNCHANGED <<client, initCount>>

\* the encryptedResult of the last compute response for the client's session,
\* which the caller of computeResults holds
ComputedResults(c) ==
  IF client[c].sessionId \in DOMAIN lastTally
  THEN {JString(lastTally[client[c].sessionId].encryptedResult)}
  ELSE {}

\* what decryptResults returns or throws
DecryptResultsReturn(c, encryptedResult, paillierPrivateKey) ==
  IF paillierPrivateKey = Null
  THEN Threw(c, "decryptResults", encryptedResult, "Private key not available")
  ELSE LET d == DecryptResultsValue(encryptedResult, paillierPrivateKey)
       IN  IF ~d.ok THEN Threw(c, "decryptResults", encryptedResult, d.error)
           ELSE Returned(c, "decryptResults", encryptedResult,
                         [success |-> TRUE,
                          totalYesVotes |-> d.val,
                          message |-> "Results decrypted on client side"])

\* SecureVotingClient.decryptResults
DecryptResults(c) ==
  \E encryptedResult \in ComputedResults(c) \cup OtherDecryptArgs :
    ClientOnly(DecryptResultsReturn(c, encryptedResult, client[c].paillierPrivateKey))

\* what getSessionInfo returns or throws on the response
GetSessionInfoReturn(c, res) ==
  IF ~ResponseOk(res)
  THEN Threw(c, "getSessionInfo", JUndefined, "Failed to get session info")
  ELSE Returned(c, "getSessionInfo", JUndefined, res.body)

\* SecureVotingClient.getSessionInfo
GetSessionInfo(c) ==
  IF client[c].sessionId = NullId
  THEN ClientOnly(Threw(c, "getSessionInfo", JUndefined, "Session not initialized"))
  ELSE LET h == GetSessionHandler(votingSessions, encryptedVotes, client[c].sessionId)
       IN  /\ ServerStep(h, GetSessionInfoReturn(c, h.res))
           /\ UNCHANGED <<client, initCount>>

\* what exportKeys returns or throws
ExportKeysReturn(c, fields) ==
  IF fields.sessionId = NullId \/ fields.publicKey = Null \/ fields.privateKey = Null
  THEN Threw(c, "exportKeys", JUndefined, "No keys to export")
  ELSE Returned(c, "exportKeys", JUndefined,
                [sessionId |-> fields.sessionId,
                 publicKey |-> fields.publicKey,
                 privateKey |-> fields.privateKey,
                 warning |-> "Keep private key secure! Anyone with this can decrypt votes."])

\* SecureVotingClient.exportKeys
ExportKeys(c) ==
  /\ lastReturn' = ExportKeysReturn(c, client[c])
  /\ lastResponse' = NoResponse
  /\ UNCHANGED <<votingSessions, encryptedVotes, client, lastTally, initCount, calc, app>>

\* both fields of the record are decimal strings BigInt accepts
BothParse(a, b) == StringToBigInt(a).ok /\ StringToBigInt(b).ok

\* importKeys that keeps the session identifier the client already had
ImportKeysResult_KeepsSessionId(fields, keys) ==
  LET stored == [fields EXCEPT !.publicKey = keys.publicKey,
                               !.privateKey = keys.privateKey]
  IN  IF keys.publicKey = Null
      THEN [fields |-> stored, error |-> "TypeError"]
      ELSE IF ~BothParse(keys.publicKey.n, keys.publicKey.g)
      THEN [fields |-> stored, error |-> "SyntaxError"]
      ELSE LET public == [stored EXCEPT
                            !.paillierPublicKey = PaillierPublicKey(keys.publicKey)]
           IN  IF keys.privateKey = Null
               THEN [fields |-> public, error |-> "TypeError"]
               ELSE IF ~BothParse(keys.privateKey.lambda, keys.privateKey.mu)
               THEN [fields |-> public, error |-> "SyntaxError"]
               ELSE [fields |->
                       [public EXCEPT
                          !.paillierPrivateKey =
                             PaillierPrivateKey(keys.privateKey, public.paillierPublicKey)],
                     error |-> ""]

\* importKeys: the fields of the client when it returns or throws, and whether
\* it threw; the three assignments come first, then the two key objects, each
\* of which may throw
ImportKeysResult(fields, keys) ==
  LET stored == [fields EXCEPT !.sessionId = keys.sessionId,
                               !.publicKey = keys.publicKey,
                               !.privateKey = keys.privateKey]
  IN  IF keys.publicKey = Null
      THEN [fields |-> stored, error |-> "TypeError"]
      ELSE IF ~BothParse(keys.publicKey.n, keys.publicKey.g)
      THEN [fields |-> stored, error |-> "SyntaxError"]
      ELSE LET public == [stored EXCEPT
                            !.paillierPublicKey = PaillierPublicKey(keys.publicKey)]
           IN  IF keys.privateKey = Null
               THEN [fields |-> public, error |-> "TypeError"]
               ELSE IF ~BothParse(keys.privateKey.lambda, keys.privateKey.mu)
               THEN [fields |-> public, error |-> "SyntaxError"]
               ELSE [fields |->
                       [public EXCEPT
                          !.paillierPrivateKey =
                             PaillierPrivateKey(keys.privateKey, public.paillierPublicKey)],
                     error |-> ""]

\* the session whose keys a caller imports
ImportedSession == "s1"

\* the keys a caller may hand to importKeys: what exportKeys gives for a
\* session of a key pair, and one of these with the private key missing, or
\* with an n that is no number
ImportInputs ==
  LET exported == {[sessionId |-> ImportedSession, publicKey |-> PublicKeyJson(kp),
                    privateKey |-> PrivateKeyJson(kp)] : kp \in KeyPairs}
      one == CHOOSE k \in exported : TRUE
  IN  exported \cup {[one EXCEPT !.privateKey = Null], [one EXCEPT !.publicKey.n = <<"x">>]}

\* SecureVotingClient.importKeys
ImportKeys(c) ==
  \E keys \in ImportInputs :
    LET result == ImportKeysResult(client[c], keys)
    IN  /\ client' = [client EXCEPT ![c] = result.fields]
        /\ lastReturn' = IF result.error = ""
                         THEN Returned(c, "importKeys", JUndefined, Null)
                         ELSE Threw(c, "importKeys", JUndefined, result.error)
        /\ lastResponse' = NoResponse
        /\ UNCHANGED <<votingSessions, encryptedVotes, lastTally, initCount, calc, app>>

Next ==
  \/ RawInit
  \/ RawSubmit
  \/ RawCompute
  \/ RawGetSession
  \/ \E c \in Clients : InitializeSession(c)
  \/ \E c \in Clients : CastVote(c)
  \/ \E c \in Clients : ComputeResults(c)
  \/ \E c \in Clients : DecryptResults(c)

Spec == Init /\ [][Next]_vars

(***************************************************************************)
(* CipherSpec: one vote encrypted by castVote's code and handed, as the    *)
(* string it was sent as, to decryptResults of the client that owns the    *)
(* key pair.  The key pair, the vote and r are drawn in the initial state. *)
(***************************************************************************)
CipherClient == "c1"

CipherInit ==
  /\ votingSessions = NoFunction
  /\ encryptedVotes = NoFunction
  /\ client = [c \in Clients |-> NewClient]
  /\ lastResponse = NoResponse
  /\ lastReturn = NoReturn
  /\ lastTally = NoFunction
  /\ initCount = 0
  /\ app = NewApp
  /\ \E kp \in KeyPairs, vote \in {0, 1} :
       \E r \in AdmissibleRs(kp.n) :
         calc = [pc |-> "new", kp |-> kp, vote |-> vote, r |-> r, sent |-> <<>>]

\* initializeSession, the server drawing calc.kp
CipherInitialize ==
  /\ calc.pc = "new"
  /\ \E sessionId \in SessionIds :
       LET h == InitHandler(votingSessions, encryptedVotes, DateNow, calc.kp, sessionId)
       IN  /\ Serve(h)
           /\ lastReturn' = InitializeSessionReturn(CipherClient, h.res)
           /\ client' = [client EXCEPT ![CipherClient] = ClientAfterInit(h.res.body)]
  /\ initCount' = initCount + 1
  /\ calc' = [calc EXCEPT !.pc = "keyed"]

\* the encryption of castVote, encrypt drawing calc.r
CipherEncrypt ==
  /\ calc.pc = "keyed"
  /\ calc' = [calc EXCEPT !.pc = "encrypted",
                          !.sent = EncryptVote(calc.vote, calc.r,
                                               client[CipherClient].paillierPublicKey)]
  /\ UNCHANGED <<votingSessions, encryptedVotes, client, lastResponse, lastReturn,
                 lastTally, initCount, app>>

\* decryptResults on the string castVote sent
CipherDecrypt ==
  /\ calc.pc = "encrypted"
  /\ lastReturn' = DecryptResultsReturn(CipherClient, JString(calc.sent),
                                        client[CipherClient].paillierPrivateKey)
  /\ lastResponse' = NoResponse
  /\ calc' = [calc EXCEPT !.pc = "decrypted"]
  /\ UNCHANGED <<votingSessions, encryptedVotes, client, lastTally, initCount, app>>

CipherNext == CipherInitialize \/ CipherEncrypt \/ CipherDecrypt

CipherSpec == CipherInit /\ [][CipherNext]_vars

(***************************************************************************)
(* FoldSpec: the same ballots submitted to two sessions of one key in two  *)
(* orders, then compute on each.  The key pair, the ballots and the second *)
(* order are drawn in the initial state.                                   *)
(***************************************************************************)
\* ballots submitted per session in FoldSpec
MaxFold == 3

FoldA == "s1"

FoldB == "s2"

\* the strings FoldSpec submits under a key: encrypted votes, a negative
\* number, n^2, and no number at all
FoldPool(kp) ==
  {EncryptVote(m, r, [n |-> kp.n, g |-> kp.g]) : m \in {0, 1}, r \in RandomRs(kp.n)}
    \cup {<<"-", "7">>, BigIntToString(kp.n * kp.n), <<"x">>}

Permuted(seq, perm) == [i \in 1..Len(seq) |-> seq[perm[i]]]

FoldInit ==
  /\ votingSessions = NoFunction
  /\ encryptedVotes = NoFunction
  /\ client = [c \in Clients |-> NewClient]
  /\ lastResponse = NoResponse
  /\ lastReturn = NoReturn
  /\ lastTally = NoFunction
  /\ initCount = 0
  /\ app = NewApp
  /\ \E kp \in KeyPairs, len \in 1..MaxFold :
       \E order \in [1..len -> FoldPool(kp)] :
         \E perm \in Permutations(1..len) :
           calc = [pc |-> "open", kp |-> kp, orderA |-> order,
                   orderB |-> Permuted(order, perm),
                   resA |-> NoResponse, resB |-> NoResponse]

\* init for the next of the two sessions, the server drawing calc.kp
FoldOpen ==
  /\ calc.pc = "open"
  /\ LET sessionId == IF FoldA \in DOMAIN votingSessions THEN FoldB ELSE FoldA
     IN  /\ Serve(InitHandler(votingSessions, encryptedVotes, DateNow, calc.kp, sessionId))
         /\ calc' = [calc EXCEPT !.pc = IF sessionId = FoldB THEN "submit" ELSE "open"]
  /\ initCount' = initCount + 1
  /\ lastReturn' = NoReturn
  /\ UNCHANGED client

\* submit of the next ballot: order A to the first session, then order B to
\* the second
FoldSubmit ==
  /\ calc.pc = "submit"
  /\ LET toA == Len(encryptedVotes[FoldA]) < Len(calc.orderA)
         sessionId == IF toA THEN FoldA ELSE FoldB
         order == IF toA THEN calc.orderA ELSE calc.orderB
         next == order[Len(encryptedVotes[sessionId]) + 1]
         h == SubmitHandler(votingSessions, encryptedVotes, DateNow, sessionId, JString(next))
     IN  /\ Serve(h)
         /\ calc' = [calc EXCEPT !.pc = IF Len(h.ev[FoldB]) = Len(calc.orderB)
                                        THEN "compute" ELSE "submit"]
  /\ lastReturn' = NoReturn
  /\ UNCHANGED <<client, initCount>>

\* compute on the first session, then on the second
FoldCompute ==
  /\ calc.pc = "compute"
  /\ LET first == calc.resA = NoResponse
         h == ComputeHandler(votingSessions, encryptedVotes, IF first THEN FoldA ELSE FoldB)
     IN  /\ Serve(h)
         /\ calc' = IF first THEN [calc EXCEPT !.resA = h.res]
                    ELSE [calc EXCEPT !.resB = h.res, !.pc = "done"]
  /\ lastReturn' = NoReturn
  /\ UNCHANGED <<client, initCount>>

FoldNext == FoldOpen \/ FoldSubmit \/ FoldCompute

FoldSpec == FoldInit /\ [][FoldNext]_vars

(***************************************************************************)
(* TallySpec: one session from init to decryption.  The key pair, the      *)
(* plaintexts the voters encrypt, the r of each encryption and the         *)
(* alteration, if any, of one ciphertext on its way into the store are     *)
(* drawn in the initial state.                                             *)
(***************************************************************************)
\* ballots submitted in TallySpec
MaxPlan == 2

TallyClient == "c1"

\* the plaintexts a voter may encrypt: the votes and the largest plaintext
PlainPool(n) == {0, 1, n - 1}

\* how a ciphertext may be altered before it is stored
AlterKinds == {"zero", "n", "nsquared", "plusone", "garbage"}

\* the string stored in place of the ciphertext
Alter(kind, ciphertext, n) ==
  CASE kind = "zero" -> <<"0">>
    [] kind = "n" -> BigIntToString(n)
    [] kind = "nsquared" -> BigIntToString(n * n)
    [] kind = "plusone" -> BigIntToString(StringToBigInt(ciphertext).val + 1)
    [] kind = "garbage" -> <<"x">>
    [] OTHER -> ciphertext

TallyInit ==
  /\ votingSessions = NoFunction
  /\ encryptedVotes = NoFunction
  /\ client = [c \in Clients |-> NewClient]
  /\ lastResponse = NoResponse
  /\ lastReturn = NoReturn
  /\ lastTally = NoFunction
  /\ initCount = 0
  /\ app = NewApp
  /\ \E kp \in KeyPairs, len \in 1..MaxPlan :
       \E plan \in [1..len -> [m : PlainPool(kp.n), r : RandomRs(kp.n)]] :
         \E altered \in 0..len :
           \E kind \in IF altered = 0 THEN {"none"} ELSE AlterKinds :
             calc = [pc |-> "new", kp |-> kp, plan |-> plan,
                     altered |-> altered, kind |-> kind]

\* initializeSession, the server drawing calc.kp
TallyInitialize ==
  /\ calc.pc = "new"
  /\ \E sessionId \in SessionIds :
       LET h == InitHandler(votingSessions, encryptedVotes, DateNow, calc.kp, sessionId)
       IN  /\ Serve(h)
           /\ lastReturn' = InitializeSessionReturn(TallyClient, h.res)
           /\ client' = [client EXCEPT ![TallyClient] = ClientAfterInit(h.res.body)]
  /\ initCount' = initCount + 1
  /\ calc' = [calc EXCEPT !.pc = "open"]

\* a voter encrypts the next plaintext under the session's published key and
\* submits it; the altered one arrives as the alteration
TallySubmit ==
  /\ calc.pc = "open"
  /\ LET sessionId == client[TallyClient].sessionId
         i == Len(encryptedVotes[sessionId]) + 1
         pk == PaillierPublicKey(votingSessions[sessionId].publicKey)
         ciphertext == EncryptVote(calc.plan[i].m, calc.plan[i].r, pk)
         sent == IF i = calc.altered THEN Alter(calc.kind, ciphertext, pk.n) ELSE ciphertext
         h == SubmitHandler(votingSessions, encryptedVotes, DateNow, sessionId, JString(sent))
     IN  /\ Serve(h)
         /\ calc' = [calc EXCEPT !.pc = IF i = Len(calc.plan) THEN "closed" ELSE "open"]
  /\ lastReturn' = NoReturn
  /\ UNCHANGED <<client, initCount>>

\* computeResults
TallyCompute ==
  /\ calc.pc = "closed"
  /\ LET h == ComputeHandler(votingSessions, encryptedVotes, client[TallyClient].sessionId)
     IN  /\ Serve(h)
         /\ lastReturn' = ComputeResultsReturn(TallyClient, h.res)
         /\ calc' = [calc EXCEPT !.pc = IF ResponseOk(h.res) THEN "tallied" ELSE "rejected"]
  /\ UNCHANGED <<client, initCount>>

\* decryptResults on the aggregate computeResults returned
TallyDecrypt ==
  /\ calc.pc = "tallied"
  /\ lastReturn' = DecryptResultsReturn(
                     TallyClient,
                     JString(lastTally[client[TallyClient].sessionId].encryptedResult),
                     client[TallyClient].paillierPrivateKey)
  /\ lastResponse' = NoResponse
  /\ calc' = [calc EXCEPT !.pc = "decrypted"]
  /\ UNCHANGED <<votingSessions, encryptedVotes, client, lastTally, initCount, app>>

TallyNext == TallyInitialize \/ TallySubmit \/ TallyCompute \/ TallyDecrypt

TallySpec == TallyInit /\ [][TallyNext]_vars

(***************************************************************************)
(* FreshSpec: castVote's encryption of one vote twice under one key.  The  *)
(* key pair, the vote and the r of each encryption are drawn in the        *)
(* initial state.                                                          *)
(***************************************************************************)
FreshClient == "c1"

FreshInit ==
  /\ votingSessions = NoFunction
  /\ encryptedVotes = NoFunction
  /\ client = [c \in Clients |-> NewClient]
  /\ lastResponse = NoResponse
  /\ lastReturn = NoReturn
  /\ lastTally = NoFunction
  /\ initCount = 0
  /\ app = NewApp
  /\ \E kp \in KeyPairs, vote \in {0, 1} :
       \E r1 \in AdmissibleRs(kp.n), r2 \in AdmissibleRs(kp.n) :
         calc = [pc |-> "new", kp |-> kp, vote |-> vote, r1 |-> r1, r2 |-> r2,
                 first |-> <<>>, second |-> <<>>]

\* initializeSession, the server drawing calc.kp
FreshInitialize ==
  /\ calc.pc = "new"
  /\ \E sessionId \in SessionIds :
       LET h == InitHandler(votingSessions, encryptedVotes, DateNow, calc.kp, sessionId)
       IN  /\ Serve(h)
           /\ lastReturn' = InitializeSessionReturn(FreshClient, h.res)
           /\ client' = [client EXCEPT ![FreshClient] = ClientAfterInit(h.res.body)]
  /\ initCount' = initCount + 1
  /\ calc' = [calc EXCEPT !.pc = "keyed"]

\* the encryption of castVote, encrypt drawing calc.r1
FreshEncrypt ==
  /\ calc.pc = "keyed"
  /\ calc' = [calc EXCEPT !.pc = "once",
                          !.first = EncryptVote(calc.vote, calc.r1,
                                                client[FreshClient].paillierPublicKey)]
  /\ UNCHANGED <<votingSessions, encryptedVotes, client, lastResponse, lastReturn,
                 lastTally, initCount, app>>

\* the encryption of castVote again, encrypt drawing calc.r2
FreshEncryptAgain ==
  /\ calc.pc = "once"
  /\ calc' = [calc EXCEPT !.pc = "twice",
                          !.second = EncryptVote(calc.vote, calc.r2,
                                                 client[FreshClient].paillierPublicKey)]
  /\ UNCHANGED <<votingSessions, encryptedVotes, client, lastResponse, lastReturn,
                 lastTally, initCount, app>>

FreshNext == FreshInitialize \/ FreshEncrypt \/ FreshEncryptAgain

FreshSpec == FreshInit /\ [][FreshNext]_vars

(***************************************************************************)
(* AppSpec: the HomomorphicVotingApp component.  A handler runs with the   *)
(* state of the render it belongs to; a setTimeout callback keeps the      *)
(* state its handler ran with.                                             *)
(***************************************************************************)
\* votes the component collects
MaxAppVotes == 3

AppTabs == {"vote", "server", "results"}

\* the server and the SecureVotingClient take no part
AppOnly ==
  UNCHANGED <<votingSessions, encryptedVotes, client, lastResponse, lastReturn, lastTally,
              initCount, calc>>

\* onClick={() => setActiveTab(tab.id)}
SetActiveTab ==
  /\ \E tab \in AppTabs : app' = [app EXCEPT !.activeTab = tab]
  /\ AppOnly

\* onClick={() => setVote(1)}, onClick={() => setVote(0)}
SetVote ==
  /\ \E v \in {0, 1} : app' = [app EXCEPT !.vote = JNumber(v)]
  /\ AppOnly

\* handleVoteSubmit, behind disabled={vote === null || loading}
HandleVoteSubmit ==
  /\ app.vote # JNull
  /\ ~app.loading
  /\ Len(app.serverVotes) < MaxAppVotes
  /\ \E keys \in GeneratedKeys :
       app' = [app EXCEPT !.loading = TRUE,
                          !.clientKeys = IF ~app.clientKeys.set THEN keys ELSE @,
                          !.timer = [kind |-> "submit", vote |-> app.vote,
                                     clientKeys |-> app.clientKeys,
                                     results |-> app.results]]
  /\ AppOnly

\* the callback of handleVoteSubmit: encryptVote sees the clientKeys of the
\* render the handler belonged to
VoteSubmitTimeout ==
  /\ app.timer.kind = "submit"
  /\ \E keys \in GeneratedKeys :
       app' = [app EXCEPT !.clientKeys = IF ~app.timer.clientKeys.set THEN keys ELSE @,
                          !.encryptedVote = SimulatedCiphertext(app.timer.vote),
                          !.serverVotes =
                             Append(@, [encrypted |-> SimulatedCiphertext(app.timer.vote)]),
                          !.loading = FALSE,
                          !.activeTab = "server",
                          !.timer = NoTimer]
  /\ AppOnly

\* handleComputeResults behind a button that is only disabled while loading
HandleComputeResults_AlwaysEnabled ==
  /\ ~app.loading
  /\ app' = [app EXCEPT !.loading = TRUE,
                        !.timer = [kind |-> "compute", vote |-> app.vote,
                                   clientKeys |-> app.clientKeys,
                                   results |-> app.results]]
  /\ AppOnly

\* handleComputeResults, behind disabled={serverVotes.length === 0 || loading}
HandleComputeResults ==
  /\ Len(app.serverVotes) # 0
  /\ ~app.loading
  /\ app' = [app EXCEPT !.loading = TRUE,
                        !.timer = [kind |-> "compute", vote |-> app.vote,
                                   clientKeys |-> app.clientKeys,
                                   results |-> app.results]]
  /\ AppOnly

\* the callback of handleComputeResults
ComputeTimeout ==
  /\ app.timer.kind = "compute"
  /\ app' = [app EXCEPT !.results = [NoResults EXCEPT !.set = TRUE,
                                                       !.encrypted = "ENCRYPTED_RESULT_r",
                                                       !.needsDecryption = TRUE],
                        !.loading = FALSE,
                        !.activeTab = "results",
                        !.timer = NoTimer]
  /\ AppOnly

\* handleDecryptResults behind a button that stays enabled while loading
HandleDecryptResults_WhileLoading ==
  /\ app.results.set
  /\ ~app.results.decrypted
  /\ app.clientKeys.set
  /\ app' = [app EXCEPT !.loading = TRUE,
                        !.timer = [kind |-> "decrypt", vote |-> app.vote,
                                   clientKeys |-> app.clientKeys,
                                   results |-> app.results]]
  /\ AppOnly

\* handleDecryptResults, on the button rendered while results && !results.decrypted,
\* behind disabled={loading}
HandleDecryptResults ==
  /\ app.results.set
  /\ ~app.results.decrypted
  /\ ~app.loading
  /\ app.clientKeys.set
  /\ app' = [app EXCEPT !.loading = TRUE,
                        !.timer = [kind |-> "decrypt", vote |-> app.vote,
                                   clientKeys |-> app.clientKeys,
                                   results |-> app.results]]
  /\ AppOnly

\* the callback of handleDecryptResults: {...results, decrypted: true, yesVotes, noVotes}
DecryptTimeout ==
  /\ app.timer.kind = "decrypt"
  /\ \E yesVotes \in YesVotesDraws, noVotes \in NoVotesDraws :
       app' = [app EXCEPT !.results = [app.timer.results EXCEPT !.decrypted = TRUE,
                                                                 !.yesVotes = yesVotes,
                                                                 !.noVotes = noVotes],
                          !.loading = FALSE,
                          !.timer = NoTimer]
  /\ AppOnly

AppNext ==
  \/ SetActiveTab
  \/ SetVote
  \/ HandleVoteSubmit
  \/ VoteSubmitTimeout
  \/ HandleComputeResults
  \/ ComputeTimeout
  \/ HandleDecryptResults
  \/ DecryptTimeout

AppSpec == Init /\ [][AppNext]_vars

\* a callback handed to setTimeout is run once its delay has passed
AppFairness ==
  /\ WF_vars(VoteSubmitTimeout)
  /\ WF_vars(ComputeTimeout)
  /\ WF_vars(DecryptTimeout)

AppLiveSpec == AppSpec /\ AppFairness

(***************************************************************************)
(* ServerSpec: the routes of the server called with any session            *)
(* identifier, the names of inherited properties included.                 *)
(***************************************************************************)
\* the identifiers a request may carry
RequestIds == SessionIds \cup PrototypeKeys

\* POST /api/voting/submit with any identifier
AnySubmit ==
  \E sessionId \in RequestIds :
    \E encryptedVote \in MalformedVotes \cup EncryptedBallots(sessionId)
                           \cup {JString(<<"1">>)} :
      LET h == SubmitHandler(votingSessions, encryptedVotes, DateNow, sessionId, encryptedVote)
      IN  /\ WithinBound(h)
          /\ ServerStep(h, NoReturn)
          /\ UNCHANGED <<client, initCount>>

\* POST /api/voting/compute with any identifier
AnyCompute ==
  \E sessionId \in RequestIds :
    /\ ServerStep(ComputeHandler(votingSessions, encryptedVotes, sessionId), NoReturn)
    /\ UNCHANGED <<client, initCount>>

\* GET /api/voting/session/:sessionId with any identifier
AnyGetSession ==
  \E sessionId \in RequestIds :
    /\ ServerStep(GetSessionHandler(votingSessions, encryptedVotes, sessionId), NoReturn)
    /\ UNCHANGED <<client, initCount>>

ServerNext == RawInit \/ AnySubmit \/ AnyCompute \/ AnyGetSession

ServerSpec == Init /\ [][ServerNext]_vars

(***************************************************************************)
(* KeysSpec: a client initializes a session, exports its keys, and the     *)
(* exported object is imported twice into another client, whose fields     *)
(* before the import are drawn in the initial state.                       *)
(***************************************************************************)
KeysClient == "c1"

\* the states the importing client may be in: new, initialized for some
\* session, or left behind by an importKeys that returned or threw
ImportTargets ==
  {NewClient}
    \cup {ClientAfterInit(InitBody(kp, sessionId)) : kp \in KeyPairs, sessionId \in SessionIds}
    \cup {ImportKeysResult(NewClient, keys).fields : keys \in ImportInputs}

KeysInit ==
  /\ votingSessions = NoFunction
  /\ encryptedVotes = NoFunction
  /\ client = [c \in Clients |-> NewClient]
  /\ lastResponse = NoResponse
  /\ lastReturn = NoReturn
  /\ lastTally = NoFunction
  /\ initCount = 0
  /\ app = NewApp
  /\ \E other \in ImportTargets :
       calc = [pc |-> "new", other |-> other, once |-> NewClient, twice |-> NewClient]

\* initializeSession on the exporting client, a first time or again
KeysInitialize ==
  /\ calc.pc \in {"new", "keyed"}
  /\ initCount < MaxInits
  /\ \E kp \in KeyPairs, sessionId \in SessionIds :
       LET h == InitHandler(votingSessions, encryptedVotes, DateNow, kp, sessionId)
       IN  /\ Serve(h)
           /\ lastReturn' = InitializeSessionReturn(KeysClient, h.res)
           /\ client' = [client EXCEPT ![KeysClient] = ClientAfterInit(h.res.body)]
  /\ initCount' = initCount + 1
  /\ calc' = [calc EXCEPT !.pc = "keyed"]

\* other.importKeys(c.exportKeys())
KeysImport ==
  /\ calc.pc = "keyed"
  /\ LET exported == ExportKeysReturn(KeysClient, client[KeysClient])
     IN  /\ exported.ok
         /\ lastReturn' = exported
         /\ calc' = [calc EXCEPT !.pc = "once",
                                 !.once = ImportKeysResult(calc.other, exported.value).fields]
  /\ lastResponse' = NoResponse
  /\ UNCHANGED <<votingSessions, encryptedVotes, client, lastTally, initCount, app>>

\* the same importKeys a second time
KeysImportAgain ==
  /\ calc.pc = "once"
  /\ LET exported == ExportKeysReturn(KeysClient, client[KeysClient])
     IN  /\ exported.ok
         /\ lastReturn' = exported
         /\ calc' = [calc EXCEPT !.pc = "twice",
                                 !.twice = ImportKeysResult(calc.once, exported.value).fields]
  /\ lastResponse' = NoResponse
  /\ UNCHANGED <<votingSessions, encryptedVotes, client, lastTally, initCount, app>>

KeysNext == KeysInitialize \/ KeysImport \/ KeysImportAgain

KeysSpec == KeysInit /\ [][KeysNext]_vars

(***************************************************************************)
(* DupSpec: one session receives some ciphertexts, then one ciphertext     *)
(* value twice, then compute.  The key pair and the ciphertexts are drawn  *)
(* in the initial state.                                                   *)
(***************************************************************************)
\* ciphertexts the session holds before the repeated one
MaxPrior == 1

DupSession == "s1"

\* the ciphertext strings of the votes under a key
BallotStrings(kp) ==
  {EncryptVote(m, r, [n |-> kp.n, g |-> kp.g]) : m \in {0, 1}, r \in RandomRs(kp.n)}

DupInit ==
  /\ votingSessions = NoFunction
  /\ encryptedVotes = NoFunction
  /\ client = [c \in Clients |-> NewClient]
  /\ lastResponse = NoResponse
  /\ lastReturn = NoReturn
  /\ lastTally = NoFunction
  /\ initCount = 0
  /\ app = NewApp
  /\ \E kp \in KeyPairs, len \in 0..MaxPrior :
       \E prior \in [1..len -> BallotStrings(kp)], dup \in BallotStrings(kp) :
         calc = [pc |-> "open", kp |-> kp, prior |-> prior, dup |-> dup]

\* init, the server drawing calc.kp
DupOpen ==
  /\ calc.pc = "open"
  /\ Serve(InitHandler(votingSessions, encryptedVotes, DateNow, calc.kp, DupSession))
  /\ initCount' = initCount + 1
  /\ calc' = [calc EXCEPT !.pc = "submit"]
  /\ lastReturn' = NoReturn
  /\ UNCHANGED client

\* submit of the next earlier ciphertext
DupSubmitPrior ==
  /\ calc.pc = "submit"
  /\ Len(encryptedVotes[DupSession]) < Len(calc.prior)
  /\ Serve(SubmitHandler(votingSessions, encryptedVotes, DateNow, DupSession,
                         JString(calc.prior[Len(encryptedVotes[DupSession]) + 1])))
  /\ lastReturn' = NoReturn
  /\ UNCHANGED <<client, initCount, calc>>

\* submit of calc.dup, for the first and for the second time
DupSubmit ==
  /\ calc.pc \in {"submit", "once"}
  /\ Len(encryptedVotes[DupSession]) >= Len(calc.prior)
  /\ Serve(SubmitHandler(votingSessions, encryptedVotes, DateNow, DupSession,
                         JString(calc.dup)))
  /\ calc' = [calc EXCEPT !.pc = IF calc.pc = "submit" THEN "once" ELSE "twice"]
  /\ lastReturn' = NoReturn
  /\ UNCHANGED <<client, initCount>>

\* compute
DupCompute ==
  /\ calc.pc = "twice"
  /\ Serve(ComputeHandler(votingSessions, encryptedVotes, DupSession))
  /\ calc' = [calc EXCEPT !.pc = "done"]
  /\ lastReturn' = NoReturn
  /\ UNCHANGED <<client, initCount>>

DupNext == DupOpen \/ DupSubmitPrior \/ DupSubmit \/ DupCompute

DupSpec == DupInit /\ [][DupNext]_vars

(***************************************************************************)
(* ClientSpec: the methods of a SecureVotingClient, called in any order.   *)
(***************************************************************************)
ClientNext ==
  \/ \E c \in Clients : InitializeSession(c)
  \/ \E c \in Clients : CastVote(c)
  \/ \E c \in Clients : ComputeResults(c)
  \/ \E c \in Clients : DecryptResults(c)
  \/ \E c \in Clients : GetSessionInfo(c)
  \/ \E c \in Clients : ExportKeys(c)
  \/ \E c \in Clients : ImportKeys(c)

ClientSpec == Init /\ [][ClientNext]_vars

(***************************************************************************)
(* Properties.                                                             *)
(***************************************************************************)
\* the key pairs whose public half a session holds
SessionKeyPairs(s) == {kp \in KeyPairs : PublicKeyJson(kp) = votingSessions[s].publicKey}

\* per key pair and vote, the strings that are encryptions of the vote
BallotTable ==
  [kp \in KeyPairs |->
     [m \in {0, 1} |->
        {BigIntToString(Encrypt(m, r, kp.n, kp.g)) : r \in AdmissibleRs(kp.n)}]]

IsBallot(str, kp) == \E m \in {0, 1} : str \in BallotTable[kp][m]

\* the vote a ballot string encrypts
VoteOf(str, kp) == CHOOSE m \in {0, 1} : str \in BallotTable[kp][m]

\* every stored entry of the session is a vote encrypted under the session's key
AllBallots(s) ==
  \E kp \in SessionKeyPairs(s) :
    \A i \in 1..Len(encryptedVotes[s]) : IsBallot(encryptedVotes[s][i].encryptedValue, kp)

RECURSIVE SumVotes(_, _)
SumVotes(votes, kp) ==
  IF votes = <<>> THEN 0
  ELSE VoteOf(votes[1].encryptedValue, kp) + SumVotes(Tail(votes), kp)

SumOfVotes(s) == SumVotes(encryptedVotes[s], CHOOSE kp \in SessionKeyPairs(s) : TRUE)

\* client c has just decrypted the aggregate compute returned for the ballots
\* its session holds, all of them votes encrypted under the session's key,
\* which is the client's
DecryptedTallyOf(c, s) ==
  /\ lastReturn.method = "decryptResults"
  /\ lastReturn.client = c
  /\ client[c].sessionId = s
  /\ s \in DOMAIN votingSessions
  /\ client[c].publicKey = votingSessions[s].publicKey
  /\ Len(encryptedVotes[s]) > 0
  /\ AllBallots(s)
  /\ s \in DOMAIN lastTally
  /\ lastTally[s].voteCount = Len(encryptedVotes[s])
  /\ lastReturn.arg = JString(lastTally[s].encryptedResult)

\* C1: when a client decrypts the aggregate that compute returned for a
\* session whose ballots are all votes in {0,1} encrypted under the session's
\* key, with the private key of that key pair, the result is the sum of the
\* votes.
C1_HomomorphicTally ==
  \A c \in Clients, s \in SessionIds :
    DecryptedTallyOf(c, s) =>
      /\ lastReturn.ok
      /\ lastReturn.value.totalYesVotes = SumOfVotes(s)

C1_Witness ==
  \E c \in Clients, s \in SessionIds :
    /\ DecryptedTallyOf(c, s)
    /\ Len(encryptedVotes[s]) = 2
    /\ encryptedVotes[s][1].encryptedValue # encryptedVotes[s][2].encryptedValue
    /\ lastReturn.ok
    /\ lastReturn.value.totalYesVotes = 2

\* C2: a vote in {0,1} encrypted by castVote under any key pair with any
\* admissible r, and decrypted by decryptResults with that key pair's private
\* key, comes back as the vote.
C2_RoundTrip ==
  calc.pc = "decrypted" =>
    /\ lastReturn.ok
    /\ lastReturn.value.totalYesVotes = calc.vote

C2_Witness ==
  /\ calc.pc = "decrypted"
  /\ calc.vote = 1
  /\ calc.r > 1
  /\ lastReturn.ok
  /\ lastReturn.value.totalYesVotes = 1

\* C3: two sessions of one key that received the same ballots in two orders
\* get the same answer from compute: the same status and the same body, the
\* aggregate included.
C3_FoldOrderIndependent ==
  calc.pc = "done" =>
    /\ calc.resA.status = calc.resB.status
    /\ calc.resA.body = calc.resB.body

C3_Witness ==
  /\ calc.pc = "done"
  /\ Len(calc.orderA) = 3
  /\ calc.orderA[1] # calc.orderB[1]
  /\ calc.orderA[3] # calc.orderB[3]
  /\ calc.resA.status = 200
  /\ calc.resB.status = 200
  /\ calc.resA.body.encryptedResult = calc.resB.body.encryptedResult

\* this step is a request of kind op for session s
Requested(op, s) == lastResponse'.op = op /\ lastResponse'.sessionId = s

\* C4: once compute has answered for a session, a submit to that session is
\* answered with an error, stores no ciphertext and leaves voteCount as it was.
C4_SubmitAfterTallyRejected ==
  [][\A s \in DOMAIN lastTally :
       (Requested("submit", s) /\ s \in DOMAIN votingSessions) =>
         /\ lastResponse'.status # 200
         /\ encryptedVotes'[s] = encryptedVotes[s]
         /\ votingSessions'[s].voteCount = votingSessions[s].voteCount]_vars

\* C5: compute for a session that holds no ballot answers 400 'No votes to
\* compute', with no aggregate in the body, and changes nothing in the stores.
C5_EmptyTallyFails ==
  [][\A s \in DOMAIN votingSessions :
       (Requested("compute", s) /\ Len(encryptedVotes[s]) = 0) =>
         /\ lastResponse'.status = 400
         /\ lastResponse'.body = ErrorBody("No votes to compute")
         /\ votingSessions' = votingSessions
         /\ encryptedVotes' = encryptedVotes
         /\ lastTally' = lastTally]_vars

C5_Witness ==
  /\ lastResponse.op = "compute"
  /\ lastResponse.status = 400
  /\ lastResponse.sessionId \in DOMAIN votingSessions
  /\ Len(encryptedVotes[lastResponse.sessionId]) = 0

\* the status a session shows: Tallied while the last aggregate covers every
\* stored ballot, Open while it accumulates ballots
Status(s) ==
  IF s \notin DOMAIN votingSessions THEN "None"
  ELSE IF s \in DOMAIN lastTally /\ lastTally[s].voteCount = Len(encryptedVotes[s])
  THEN "Tallied"
  ELSE "Open"

\* C6: a session that is Tallied does not go back to Open on a submit.
C6_StatusNeverGoesBack ==
  [][\A s \in SessionIds :
       (Status(s) = "Tallied" /\ Requested("submit", s)) => Status(s)' # "Open"]_vars

\* C7: decryptResults succeeds only when compute has produced an aggregate
\* for the client's session.
C7_DecryptOnlyAfterTally ==
  (lastReturn.method = "decryptResults" /\ lastReturn.ok) =>
    client[lastReturn.client].sessionId \in DOMAIN lastTally

\* the string denotes an integer c with 0 <= c < n^2
InRange(str, n) ==
  /\ StringToBigInt(str).ok
  /\ 0 <= StringToBigInt(str).val
  /\ StringToBigInt(str).val < n * n

\* C8: every ciphertext a session stores denotes an integer in [0, n^2) for
\* the session's n.
C8_StoredCiphertextsInRange ==
  \A s \in DOMAIN encryptedVotes :
    \A i \in 1..Len(encryptedVotes[s]) :
      InRange(encryptedVotes[s][i].encryptedValue,
              StringToBigInt(votingSessions[s].publicKey.n).val)

\* C9: a session record holds the public key (n, g) of a key pair, createdAt
\* and voteCount and nothing else, a stored ballot holds the ciphertext and
\* its timestamp, and no response to submit, compute or get_session has a
\* privateKey.
C9_NoPrivateKeyInStores ==
  /\ \A s \in DOMAIN votingSessions :
       /\ DOMAIN votingSessions[s] = {"publicKey", "createdAt", "voteCount"}
       /\ DOMAIN votingSessions[s].publicKey = {"n", "g"}
       /\ SessionKeyPairs(s) # {}
  /\ \A s \in DOMAIN encryptedVotes :
       \A i \in 1..Len(encryptedVotes[s]) :
         DOMAIN encryptedVotes[s][i] = {"encryptedValue", "timestamp"}
  /\ lastResponse.op \in {"submit", "compute", "session"} =>
       /\ "privateKey" \notin DOMAIN lastResponse.body
       /\ (lastResponse.op = "session" /\ lastResponse.status = 200) =>
            /\ "privateKey" \notin DOMAIN lastResponse.body.session
            /\ DOMAIN lastResponse.body.session.publicKey = {"n", "g"}

C9_Witness ==
  /\ lastResponse.op = "session"
  /\ lastResponse.status = 200
  /\ Len(encryptedVotes[lastResponse.sessionId]) > 0
  /\ \E c \in Clients : client[c].privateKey # Null

\* C10: no response of init carries the private key.
C10_PrivateKeyNeverLeavesServer ==
  lastResponse.op = "init" => "privateKey" \notin DOMAIN lastResponse.body

\* C11: in every state, every session's voteCount is the number of
\* ciphertexts stored for it, and the voteCount a submit or a compute reports
\* is that number.
C11_CountConsistency ==
  /\ DOMAIN votingSessions = DOMAIN encryptedVotes
  /\ \A s \in DOMAIN votingSessions :
       votingSessions[s].voteCount = Len(encryptedVotes[s])
  /\ (lastResponse.op \in {"submit", "compute"} /\ lastResponse.status = 200) =>
       lastResponse.body.voteCount = Len(encryptedVotes[lastResponse.sessionId])

C11_Witness ==
  /\ lastResponse.op = "submit"
  /\ lastResponse.status = 200
  /\ lastResponse.body.voteCount = 2
  /\ votingSessions[lastResponse.sessionId].voteCount = 2
  /\ Len(encryptedVotes[lastResponse.sessionId]) = 2

\* the ballots of s before the step are the first ballots of s after it
KeepsBallots(s) ==
  /\ s \in DOMAIN encryptedVotes'
  /\ Len(encryptedVotes'[s]) >= Len(encryptedVotes[s])
  /\ SubSeq(encryptedVotes'[s], 1, Len(encryptedVotes[s])) = encryptedVotes[s]

\* C12: in every interleaving of submit, compute and get_session requests, a
\* submit answered with success adds exactly one entry, the submitted one, at
\* the end of the stored sequence, no such request removes or changes a stored
\* entry, and a compute answered with success has folded every entry stored
\* when it ran.
C12_NoLostSubmission ==
  [][\A s \in DOMAIN encryptedVotes :
       lastResponse'.op \in {"submit", "compute", "session"} =>
         /\ KeepsBallots(s)
         /\ (Requested("submit", s) /\ lastResponse'.status = 200) =>
              /\ Len(encryptedVotes'[s]) = Len(encryptedVotes[s]) + 1
              /\ lastResponse'.body.voteCount = Len(encryptedVotes'[s])
         /\ (Requested("compute", s) /\ lastResponse'.status = 200) =>
              /\ encryptedVotes'[s] = encryptedVotes[s]
              /\ lastResponse'.body.voteCount = Len(encryptedVotes[s])
              /\ lastResponse'.body.encryptedResult =
                   BigIntToString(ComputeSum(encryptedVotes[s],
                                             votingSessions[s].publicKey).val)]_vars

C12_Witness ==
  /\ lastResponse.op = "compute"
  /\ lastResponse.status = 200
  /\ lastResponse.body.voteCount = 2
  /\ Len(encryptedVotes[lastResponse.sessionId]) = 2
  /\ lastReturn.method = "computeResults"

\* C13: a compute on a session whose last request was a successful compute,
\* or whose stored sequence is still the one the last successful compute
\* folded, returns the same aggregate and the same voteCount.
C13_TallyIdempotent ==
  [][\A s \in DOMAIN votingSessions :
       Requested("compute", s) =>
         /\ (lastResponse.op = "compute" /\ lastResponse.sessionId = s
               /\ lastResponse.status = 200) =>
              /\ lastResponse'.status = 200
              /\ lastResponse'.body = lastResponse.body
         /\ (s \in DOMAIN lastTally /\ lastTally[s].voteCount = Len(encryptedVotes[s])) =>
              /\ lastResponse'.status = 200
              /\ lastResponse'.body.encryptedResult = lastTally[s].encryptedResult
              /\ lastResponse'.body.voteCount = lastTally[s].voteCount]_vars

\* a compute request answered with the aggregate of the two ballots of a
\* client's session
C13_Witness ==
  /\ lastResponse.op = "compute"
  /\ lastResponse.status = 200
  /\ lastReturn.method = "none"
  /\ \E c \in Clients :
       /\ client[c].sessionId = lastResponse.sessionId
       /\ lastResponse.body.voteCount = 2
       /\ client[c].privateKey # Null

\* C14: once compute has returned an aggregate for a session, every later
\* successful compute on the session returns that aggregate.
C14_AggregateImmutable ==
  [][\A s \in DOMAIN lastTally :
       (Requested("compute", s) /\ lastResponse'.status = 200) =>
         lastResponse'.body.encryptedResult = lastTally[s].encryptedResult]_vars

RECURSIVE PlanSum(_)
PlanSum(plan) == IF plan = <<>> THEN 0 ELSE plan[1].m + PlanSum(Tail(plan))

\* C15: when one ciphertext of a session of votes in {0,1} was altered before
\* it was stored, no run ends with decryptResults returning a value that is
\* not the sum of the votes: compute rejects the sequence or decryptResults
\* throws.
C15_CorruptionNeverSilent ==
  (/\ calc.pc = "decrypted"
   /\ calc.altered # 0
   /\ \A i \in 1..Len(calc.plan) : calc.plan[i].m \in {0, 1}
   /\ lastReturn.ok)
    => lastReturn.value.totalYesVotes = PlanSum(calc.plan)

\* C16: a compute on a session that holds at least one vote encrypted under
\* its key succeeds, whatever else was submitted to the session.
C16_MalformedSubmitHarmless ==
  [][\A s \in DOMAIN votingSessions :
       (/\ Requested("compute", s)
        /\ \E kp \in SessionKeyPairs(s) :
             \E i \in 1..Len(encryptedVotes[s]) :
               IsBallot(encryptedVotes[s][i].encryptedValue, kp))
         => lastResponse'.status = 200]_vars

\* C17: the identifier of the session an init creates is the identifier of no
\* existing session.
C17_SessionIdsUnique ==
  [][\A s \in SessionIds : Requested("init", s) => s \notin DOMAIN votingSessions]_vars

\* C18: a submit or compute on session a leaves the records and the stored
\* ballots of every other session as they were and creates or removes no
\* session; a submit leaves a's public key and createdAt as they were.
C18_SessionIsolation ==
  [][\A a \in SessionIds :
       (Requested("submit", a) \/ Requested("compute", a)) =>
         /\ DOMAIN votingSessions' = DOMAIN votingSessions
         /\ DOMAIN encryptedVotes' = DOMAIN encryptedVotes
         /\ \A b \in DOMAIN votingSessions \ {a} :
              /\ votingSessions'[b] = votingSessions[b]
              /\ encryptedVotes'[b] = encryptedVotes[b]
         /\ a \in DOMAIN votingSessions =>
              /\ votingSessions'[a].publicKey = votingSessions[a].publicKey
              /\ votingSessions'[a].createdAt = votingSessions[a].createdAt]_vars

\* a submit stored in one session while another session holds a ballot under
\* another key
C18_Witness ==
  /\ lastResponse.op = "submit"
  /\ lastResponse.status = 200
  /\ \E b \in DOMAIN votingSessions \ {lastResponse.sessionId} :
       /\ Len(encryptedVotes[b]) = 1
       /\ votingSessions[b].publicKey # votingSessions[lastResponse.sessionId].publicKey

\* C19: when the voters encrypt plaintexts in [0, n) and nothing is altered,
\* decrypting the aggregate gives the sum of the plaintexts reduced mod n.
C19_SumModN ==
  (calc.pc = "decrypted" /\ calc.altered = 0) =>
    /\ lastReturn.ok
    /\ lastReturn.value.totalYesVotes = PlanSum(calc.plan) % calc.kp.n

\* two ballots, one a vote and one encrypting n - 1: the total wraps to 0
C19_Witness ==
  /\ calc.pc = "decrypted"
  /\ calc.altered = 0
  /\ Len(calc.plan) = 2
  /\ calc.plan[1].m = 1
  /\ calc.plan[2].m = calc.kp.n - 1
  /\ lastReturn.ok
  /\ lastReturn.value.totalYesVotes = 0

\* C20: the aggregate a successful compute returns denotes an integer in
\* [0, n^2) for the session's n.
C20_AggregateInRange ==
  (lastResponse.op = "compute" /\ lastResponse.status = 200) =>
    InRange(lastResponse.body.encryptedResult,
            StringToBigInt(votingSessions[lastResponse.sessionId].publicKey.n).val)

\* the votes of the plan that are NO votes
PlanZeros(plan) == Cardinality({i \in 1..Len(plan) : plan[i].m = 0})

\* C22: for votes in {0,1}, none altered, the voteCount compute returned is
\* the number of ballots submitted, and voteCount minus the decrypted sum is
\* the number of NO votes.
C22_VoteCountIsFolded ==
  (/\ calc.pc = "decrypted"
   /\ calc.altered = 0
   /\ \A i \in 1..Len(calc.plan) : calc.plan[i].m \in {0, 1})
    => LET tally == lastTally[client[TallyClient].sessionId]
       IN  /\ tally.voteCount = Len(calc.plan)
           /\ lastReturn.ok
           /\ tally.voteCount - lastReturn.value.totalYesVotes = PlanZeros(calc.plan)

\* a YES and a NO vote: voteCount 2, decrypted sum 1
C22_Witness ==
  /\ calc.pc = "decrypted"
  /\ calc.altered = 0
  /\ Len(calc.plan) = 2
  /\ calc.plan[1].m = 1
  /\ calc.plan[2].m = 0
  /\ lastTally[client[TallyClient].sessionId].voteCount = 2
  /\ lastReturn.ok
  /\ lastReturn.value.totalYesVotes = 1

\* C23: a successful submit returns the number of ballots the session held
\* before it plus one, which is the number it holds after it.
C23_SubmitCountsByOne ==
  [][\A s \in DOMAIN votingSessions :
       (Requested("submit", s) /\ lastResponse'.status = 200) =>
         /\ lastResponse'.body.voteCount = Len(encryptedVotes[s]) + 1
         /\ lastResponse'.body.voteCount = votingSessions[s].voteCount + 1
         /\ lastResponse'.body.voteCount = Len(encryptedVotes'[s])]_vars

\* castVote returning the count 2 for the second ballot of the session
C23_Witness ==
  /\ lastResponse.op = "submit"
  /\ lastResponse.status = 200
  /\ lastReturn.method = "castVote"
  /\ lastReturn.ok
  /\ lastReturn.value.voteCount = 2

\* C25: two encryptions of one vote under one key with different admissible
\* r are different ciphertexts.
C25_FreshRandomness ==
  (calc.pc = "twice" /\ calc.r1 # calc.r2) => calc.first # calc.second

C25_Witness ==
  /\ calc.pc = "twice"
  /\ calc.r1 # calc.r2
  /\ calc.vote = 1
  /\ calc.kp.n = 35
  /\ calc.first # calc.second

\* C26: no operation shortens a session's ciphertext sequence or changes a
\* stored ciphertext or its position.
C26_AppendOnly ==
  [][\A s \in DOMAIN encryptedVotes : KeepsBallots(s)]_vars

\* C27: castVote with a vote other than 0 and 1 on an initialized client
\* throws 'Vote must be 0 (No) or 1 (Yes)', sends no request and leaves the
\* stores as they were.
C27_CastVoteRejectsOtherVotes ==
  [][\A c \in Clients :
       (/\ lastReturn'.method = "castVote"
        /\ lastReturn'.client = c
        /\ lastReturn'.arg \notin {JNumber(0), JNumber(1)}
        /\ client[c].sessionId # NullId
        /\ client[c].paillierPublicKey # Null)
         => /\ ~lastReturn'.ok
            /\ lastReturn'.error = "Vote must be 0 (No) or 1 (Yes)"
            /\ lastResponse' = NoResponse
            /\ votingSessions' = votingSessions
            /\ encryptedVotes' = encryptedVotes]_vars

C27_Witness ==
  /\ lastReturn.method = "castVote"
  /\ lastReturn.arg = JNumber(2)
  /\ lastReturn.error = "Vote must be 0 (No) or 1 (Yes)"
  /\ lastResponse = NoResponse
  /\ \E c \in Clients :
       /\ client[c].sessionId \in DOMAIN encryptedVotes
       /\ Len(encryptedVotes[client[c].sessionId]) = 1

\* the votes v among the encrypted votes the component received
AppVotesFor(v) ==
  Cardinality({i \in 1..Len(app.serverVotes) :
                 app.serverVotes[i].encrypted = SimulatedCiphertext(JNumber(v))})

\* C21: the counts the component shows after decryption are the numbers of
\* 1-votes and 0-votes it received, and add up to the number of encrypted
\* votes received.
C21_ShownCountsAreVotes ==
  (app.results.set /\ app.results.decrypted) =>
    /\ app.results.yesVotes = AppVotesFor(1)
    /\ app.results.noVotes = AppVotesFor(0)
    /\ app.results.yesVotes + app.results.noVotes = Len(app.serverVotes)

\* C29: once clientKeys is set, no event replaces it with another key pair.
C29_ClientKeysSetOnce ==
  [][app.clientKeys.set => app'.clientKeys = app.clientKeys]_vars

\* C24: a response that reports a failure has success = false and an error,
\* a response with success = true has status 200, and the client method whose
\* request failed throws.
C24_NoErrorSwallowed ==
  /\ (lastResponse.op # "none" /\ ~ResponseOk(lastResponse)) =>
       /\ DOMAIN lastResponse.body = {"success", "error"}
       /\ ~lastResponse.body.success
  /\ (lastResponse.op # "none" /\ ResponseOk(lastResponse)) =>
       /\ "success" \in DOMAIN lastResponse.body
       /\ lastResponse.body.success
  /\ (lastResponse.op # "none" /\ ~ResponseOk(lastResponse) /\ lastReturn.method # "none") =>
       ~lastReturn.ok

\* C28: on a client on which neither initializeSession nor importKeys has
\* succeeded (its paillierPrivateKey was never built), castVote,
\* computeResults, getSessionInfo, decryptResults and exportKeys throw and send
\* no request.
C28_ClientOrderingGuard ==
  [][\A c \in Clients :
       (/\ client[c].paillierPrivateKey = Null
        /\ lastReturn'.client = c
        /\ lastReturn'.method \in {"castVote", "computeResults", "getSessionInfo",
                                   "decryptResults", "exportKeys"})
         => /\ ~lastReturn'.ok
            /\ lastResponse' = NoResponse]_vars

\* C30: submit, compute and get_session with an identifier of no session
\* answer 404 'Session not found' and leave the stores as they were.
C30_UnknownSessionNotFound ==
  [][(/\ lastResponse'.op \in {"submit", "compute", "session"}
      /\ lastResponse'.sessionId \notin DOMAIN votingSessions)
       => /\ lastResponse'.status = 404
          /\ lastResponse'.body = ErrorBody("Session not found")
          /\ votingSessions' = votingSessions
          /\ encryptedVotes' = encryptedVotes]_vars

\* C31: a step that answers a compute or a get_session request, with success
\* or with an error, leaves both stores as they were: every session's
\* ciphertext sequence, voteCount and public key.
C31_ComputeAndGetReadOnly ==
  [][lastResponse'.op \in {"compute", "session"}
       => /\ votingSessions' = votingSessions
          /\ encryptedVotes' = encryptedVotes]_vars

\* a compute has succeeded on a session that holds two ciphertexts, while
\* another session exists
C31_Witness ==
  /\ lastResponse.op = "compute"
  /\ ResponseOk(lastResponse)
  /\ lastResponse.sessionId \in DOMAIN encryptedVotes
  /\ Len(encryptedVotes[lastResponse.sessionId]) = 2
  /\ votingSessions[lastResponse.sessionId].voteCount = 2
  /\ Cardinality(DOMAIN votingSessions) = 2

\* C32: in the UI a compute is only in flight or done when at least one
\* encrypted vote has been received, a decrypt is only in flight when a compute
\* has produced an encrypted result and client keys exist, and decrypted
\* results are only shown after a vote submission and a compute.
C32_UiOrdering ==
  /\ (app.timer.kind = "compute" \/ app.results.set) => Len(app.serverVotes) >= 1
  /\ app.timer.kind = "decrypt" =>
       /\ app.results.set
       /\ app.results.needsDecryption
       /\ app.clientKeys.set
  /\ app.results.decrypted =>
       /\ app.results.set
       /\ app.results.needsDecryption
       /\ app.clientKeys.set
       /\ Len(app.serverVotes) >= 1

\* decrypted results are shown
C32_Witness ==
  /\ app.results.decrypted
  /\ app.results.set
  /\ Len(app.serverVotes) >= 1
  /\ app.timer = NoTimer

\* C33: in the UI loading is true exactly while one timer callback is
\* pending, no step taken while loading is true starts an operation (the
\* pending callback is kept or it fires), and whenever loading is true the
\* callback eventually fires and loading is false again.
C33_OneOperationInFlight ==
  /\ [][/\ app'.loading <=> app'.timer # NoTimer
        /\ app.loading => (app'.timer = app.timer \/ app'.timer = NoTimer)]_vars
  /\ (app.loading ~> ~app.loading)

\* a decrypt is in flight after two submissions and a compute have ended
C33_Witness ==
  /\ app.loading
  /\ app.timer.kind = "decrypt"
  /\ Len(app.serverVotes) = 2

\* C34: after importKeys(c.exportKeys()) on another client, whatever state
\* that client was in, its sessionId, publicKey and privateKey are those of the
\* initialized client c, and a second identical importKeys leaves every field
\* as the first left it.
C34_ExportImportRoundTrip ==
  /\ calc.pc \in {"once", "twice"} =>
       /\ calc.once.sessionId = client[KeysClient].sessionId
       /\ calc.once.publicKey = client[KeysClient].publicKey
       /\ calc.once.privateKey = client[KeysClient].privateKey
  /\ calc.pc = "twice" => calc.twice = calc.once

\* the keys were imported twice into a client that had been initialized for
\* another session with another key pair
C34_Witness ==
  /\ calc.pc = "twice"
  /\ calc.other.sessionId \notin {NullId, client[KeysClient].sessionId}
  /\ calc.other.publicKey \notin {Null, client[KeysClient].publicKey}
  /\ calc.twice.sessionId = client[KeysClient].sessionId
  /\ calc.twice.paillierPrivateKey = client[KeysClient].paillierPrivateKey

\* the product of the numbers the strings of seq denote, modulo m
RECURSIVE ProductMod(_, _)
ProductMod(seq, m) ==
  IF seq = <<>> THEN 1 % m
  ELSE (StringToBigInt(Head(seq)).val * ProductMod(Tail(seq), m)) % m

\* C35: a ciphertext value submitted twice to a session is stored twice, at
\* the end of the sequence, both submits succeed and voteCount is 2 more than
\* before them, and compute returns the product of the earlier ciphertexts
\* and of the square of the repeated one, modulo n^2.
C35_NoDeduplication ==
  /\ calc.pc \in {"twice", "done"} =>
       /\ Len(encryptedVotes[DupSession]) = Len(calc.prior) + 2
       /\ votingSessions[DupSession].voteCount = Len(calc.prior) + 2
       /\ \A i \in 1..2 :
            encryptedVotes[DupSession][Len(calc.prior) + i].encryptedValue = calc.dup
  /\ calc.pc = "twice" =>
       /\ lastResponse.status = 200
       /\ lastResponse.body.voteCount = Len(calc.prior) + 2
  /\ calc.pc = "done" =>
       /\ lastResponse.status = 200
       /\ lastResponse.body.voteCount = Len(calc.prior) + 2
       /\ lastResponse.body.encryptedResult =
            BigIntToString(ProductMod(calc.prior \o <<calc.dup, calc.dup>>,
                                      calc.kp.n * calc.kp.n))

\* compute has folded a session that holds one ciphertext and then another
\* one twice, and the square of the repeated one is not 1
C35_Witness ==
  /\ calc.pc = "done"
  /\ Len(calc.prior) = 1
  /\ calc.prior[1] # calc.dup
  /\ lastResponse.status = 200
  /\ ProductMod(<<calc.dup, calc.dup>>, calc.kp.n * calc.kp.n) # 1
  /\ lastResponse.body.encryptedResult # BigIntToString(ProductMod(calc.prior \o <<calc.dup>>, calc.kp.n * calc.kp.n))

====
